---- MODULE Spec2Model ----
(***************************************************************************)
(* Model of the market research report generator:                          *)
(*   src/market_research/report_generator.py  (generate_report_file and    *)
(*   the helpers it calls),                                                *)
(*   src/app.py  (main, process_markdown, create_section_id).              *)
(*                                                                         *)
(* A text is a sequence of one-character strings, so that every string     *)
(* operation of the source (split, strip, count, replace, startswith, the  *)
(* regular expressions) is computed character by character.                *)
(***************************************************************************)
EXTENDS Integers, Sequences, FiniteSets, TLC

VARIABLES
    research_data,  \* per invocation: the argument of generate_report_file
    content,        \* per invocation: str(research_data) after process_inline_citations
    links,          \* per invocation: result of extract_markdown_links
    sections,       \* per invocation: the sections list built at lines 183-194
    blocks,         \* per invocation: body blocks added to doc, in order
    sources,        \* per invocation: blocks added to doc by format_sources_section
    dir_seen,       \* per invocation: what os.path.exists('reports') returned
    company_name,   \* per invocation: result of extract_company_name (line 227)
    report_path,    \* per invocation: the path returned
    pc,             \* per invocation: position inside generate_report_file
    exc,            \* per invocation: the exception that left the call, or "none"
    reports_dir,    \* file system: the directory 'reports' exists
    files,          \* file system: path -> document saved there
    disk_faults,    \* file system: its operations may fail (disk full, permissions)
    session_state,  \* per session: st.session_state of app.py
    search_query,   \* per session: the query of the submission being served
    submissions,    \* per session: the queries the form was submitted with, in order
    kickoffs,       \* per session: the queries crew.kickoff() was called for, in order
    error,          \* per session: the exception st.error reports on the page, or "none"
    nav,            \* per session: the links of the side navigation on the page
    markdown        \* a call of process_markdown: its lines, loop index, in_list,
                    \* processed_lines and the text it returns

\* what generate_report_file neither reads nor writes, but for disk_faults
ui == <<disk_faults, session_state, search_query, submissions, kickoffs, error, nav,
        markdown>>

vars == <<research_data, content, links, sections, blocks, sources, dir_seen,
          company_name, report_path, pc, exc, reports_dir, files, ui>>

(***************************************************************************)
(* Python string primitives                                                *)
(***************************************************************************)

\* characters str.strip() and str.split() treat as whitespace (other than "\n",
\* which is the line separator of content.split('\n'))
Whitespace == {" ", "\t", "\n"}

UpperCase == <<"A","B","C","D","E","F","G","H","I","J","K","L","M",
               "N","O","P","Q","R","S","T","U","V","W","X","Y","Z">>

LowerCase == <<"a","b","c","d","e","f","g","h","i","j","k","l","m",
               "n","o","p","q","r","s","t","u","v","w","x","y","z">>

Letters == {UpperCase[i] : i \in 1..26} \cup {LowerCase[i] : i \in 1..26}

Digits == {"0","1","2","3","4","5","6","7","8","9"}

\* str.lower() of one character
LowerChar(c) ==
    IF \E i \in 1..26 : UpperCase[i] = c
    THEN LowerCase[CHOOSE i \in 1..26 : UpperCase[i] = c]
    ELSE c

\* str.lower()
Lower(s) == [i \in 1..Len(s) |-> LowerChar(s[i])]

\* s[from:] with a 1-based first index
Drop(s, from) == SubSeq(s, from, Len(s))

\* str.startswith(prefix)
StartsWith(s, prefix) ==
    /\ Len(prefix) <= Len(s)
    /\ SubSeq(s, 1, Len(prefix)) = prefix

\* sub in s
Contains(s, sub) ==
    \E i \in 1..(Len(s) - Len(sub) + 1) : SubSeq(s, i, i + Len(sub) - 1) = sub

\* str.count(c) for a single character c
Count(s, c) == Cardinality({i \in 1..Len(s) : s[i] = c})

\* str.replace(c, '') for a single character c
Remove(s, c) == SelectSeq(s, LAMBDA x : x # c)

\* str.strip(chars): drop the characters of the set chars from both ends
StripChars(s, chars) ==
    LET keep == {i \in 1..Len(s) : s[i] \notin chars}
    IN  IF keep = {} THEN <<>>
        ELSE LET lo == CHOOSE i \in keep : \A j \in keep : i <= j
                 hi == CHOOSE i \in keep : \A j \in keep : i >= j
             IN  SubSeq(s, lo, hi)

\* str.strip()
Strip(s) == StripChars(s, Whitespace)

\* index of the first occurrence of character c in s at or after from, 0 if none
FirstIdx(s, from, c) ==
    LET hits == {i \in from..Len(s) : s[i] = c}
    IN  IF hits = {} THEN 0 ELSE CHOOSE i \in hits : \A j \in hits : i <= j

\* str.split(sep) for a single character sep: always at least one field
RECURSIVE Split(_, _)
Split(s, sep) ==
    LET i == FirstIdx(s, 1, sep)
    IN  IF i = 0 THEN <<s>>
        ELSE <<SubSeq(s, 1, i - 1)>> \o Split(Drop(s, i + 1), sep)

\* sep.join(parts) for a sequence of texts
RECURSIVE Join(_, _)
Join(parts, sep) ==
    IF parts = <<>> THEN <<>>
    ELSE IF Len(parts) = 1 THEN parts[1]
    ELSE parts[1] \o sep \o Join(Tail(parts), sep)

\* str.split() without argument: the maximal runs of non-whitespace characters
RECURSIVE Words(_)
Words(s) ==
    LET t == Strip(s)
        ws == {i \in 1..Len(t) : t[i] \in Whitespace}
        cut == IF ws = {} THEN Len(t) + 1 ELSE CHOOSE i \in ws : \A j \in ws : i <= j
    IN  IF t = <<>> THEN <<>>
        ELSE <<SubSeq(t, 1, cut - 1)>> \o Words(Drop(t, cut))

\* concatenation of a sequence of texts
RECURSIVE Concat(_)
Concat(parts) ==
    IF parts = <<>> THEN <<>> ELSE Head(parts) \o Concat(Tail(parts))

\* seq[:n]
Take(seq, n) == SubSeq(seq, 1, IF n < Len(seq) THEN n ELSE Len(seq))

(***************************************************************************)
(* process_inline_citations                                                *)
(***************************************************************************)

\* the characters one repetition of the url group of the pattern accepts:
\* [a-zA-Z] | [0-9] | [$-_@.&+] (the range '$'..'_') | [!*\\(\\),]
SourceUrlChars ==
    Letters \cup Digits \cup
    {"$", "%", "&", "'", "(", ")", "*", "+", ",", "-", ".", "/", ":", ";", "<",
     "=", ">", "?", "@", "[", "\\", "]", "^", "_", "!"}

SourcePrefix == <<"(", "s", "o", "u", "r", "c", "e", ":", " ">>

\* the pattern matched at position p of s: the index of the closing ')' of the
\* match, or 0 if there is no match at p.
\* The url group is greedy and accepts ')', so the match ends at the last ')'
\* of the maximal run of url characters that leaves the group non-empty.
SourceMatchEnd(s, p) ==
    LET h == p + Len(SourcePrefix)
        afterHttp == h + 4
        afterS == IF afterHttp <= Len(s) /\ s[afterHttp] = "s"
                  THEN afterHttp + 1 ELSE afterHttp
        run0 == afterS + 3
        stops == {i \in run0..Len(s) : s[i] \notin SourceUrlChars}
        runEnd == IF stops = {} THEN Len(s)
                  ELSE (CHOOSE i \in stops : \A j \in stops : i <= j) - 1
        closers == {i \in (run0 + 1)..runEnd : s[i] = ")"}
    IN  IF /\ StartsWith(Drop(s, p), SourcePrefix)
           /\ StartsWith(Drop(s, h), <<"h", "t", "t", "p">>)
           /\ StartsWith(Drop(s, afterS), <<":", "/", "/">>)
           /\ closers # {}
        THEN CHOOSE i \in closers : \A j \in closers : i >= j
        ELSE 0

\* re.sub(pattern, r'([source](\1))', s): the text before the leftmost match
\* is kept, the match is replaced, and the scan goes on after the match
RECURSIVE SubSource(_)
SubSource(s) ==
    LET starts == {p \in 1..Len(s) : SourceMatchEnd(s, p) # 0}
    IN  IF starts = {} THEN s
        ELSE LET p == CHOOSE i \in starts : \A j \in starts : i <= j
                 e == SourceMatchEnd(s, p)
             IN  SubSeq(s, 1, p - 1)
                    \o <<"(", "[", "s", "o", "u", "r", "c", "e", "]", "(">>
                    \o SubSeq(s, p + Len(SourcePrefix), e - 1)
                    \o <<")", ")">> \o SubSource(Drop(s, e + 1))

process_inline_citations(text) == SubSource(text)

(***************************************************************************)
(* categorize_source                                                       *)
(***************************************************************************)

\* urllib.parse.urlsplit: the characters a scheme may hold
SchemeChars == Letters \cup Digits \cup {"+", "-", "."}

\* urlsplit first drops leading control characters and spaces and every tab
\* and newline of the url
UrlCleaned(url) ==
    LET lead == {i \in 1..Len(url) : url[i] \notin {" ", "\t", "\n"}}
        l == IF lead = {} THEN <<>>
             ELSE Drop(url, CHOOSE i \in lead : \A j \in lead : i <= j)
    IN  Remove(Remove(l, "\t"), "\n")

\* the url with its scheme and the ':' after it removed, when it has a scheme
UrlAfterScheme(url) ==
    LET u == UrlCleaned(url)
        i == FirstIdx(u, 1, ":")
    IN  IF /\ i > 1
           /\ u[1] \in Letters
           /\ \A j \in 1..(i - 1) : u[j] \in SchemeChars
        THEN Drop(u, i + 1)
        ELSE u

\* urlparse(url).netloc: what follows a leading '//' up to the first of / ? #
UrlNetloc(url) ==
    LET r == UrlAfterScheme(url)
        ends == {i \in 3..Len(r) : r[i] \in {"/", "?", "#"}}
        e == IF ends = {} THEN Len(r) + 1
             ELSE CHOOSE i \in ends : \A j \in ends : i <= j
    IN  IF StartsWith(r, <<"/", "/">>) THEN SubSeq(r, 3, e - 1) ELSE <<>>

\* urlparse raises ValueError("Invalid IPv6 URL") when the netloc holds one of
\* '[' and ']' without the other (a netloc holding both is validated as an
\* address literal by recent versions of urllib only; that is not modelled, and
\* the urls of the inputs below hold no ']')
UrlRaises(url) ==
    LET n == UrlNetloc(url)
    IN  (Count(n, "[") > 0) # (Count(n, "]") > 0)

\* the table of line 108-115, in the order the dict is written
Categories == <<
    [name |-> <<"M", "a", "r", "k", "e", "t", " ", "R", "e", "s", "e", "a", "r", "c", "h">>,
     keywords |-> << <<"r", "e", "s", "e", "a", "r", "c", "h">>, <<"m", "a", "r", "k", "e", "t", " ", "a", "n", "a", "l", "y", "s", "i", "s">>, <<"f", "o", "r", "e", "c", "a", "s", "t">>, <<"r", "e", "p", "o", "r", "t">>,
                     <<"g", "r", "a", "n", "d", "v", "i", "e", "w">>, <<"f", "r", "o", "s", "t">>, <<"m", "a", "r", "k", "e", "t", "s", "a", "n", "d", "m", "a", "r", "k", "e", "t", "s">> >>],
    [name |-> <<"S", "c", "i", "e", "n", "t", "i", "f", "i", "c", " ", "P", "u", "b", "l", "i", "c", "a", "t", "i", "o", "n", "s">>,
     keywords |-> << <<"n", "a", "t", "u", "r", "e">>, <<"s", "c", "i", "e", "n", "c", "e">>, <<"c", "e", "l", "l">>, <<"l", "a", "n", "c", "e", "t">>, <<"j", "o", "u", "r", "n", "a", "l">>,
                     <<"p", "u", "b", "m", "e", "d">>, <<"n", "i", "h", ".", "g", "o", "v">>, <<"r", "e", "s", "e", "a", "r", "c", "h", " ", "p", "a", "p", "e", "r">> >>],
    [name |-> <<"R", "e", "g", "u", "l", "a", "t", "o", "r", "y", " ", "&", " ", "G", "o", "v", "e", "r", "n", "m", "e", "n", "t">>,
     keywords |-> << <<"f", "d", "a">>, <<"e", "m", "a">>, <<"g", "o", "v">>, <<"r", "e", "g", "u", "l", "a", "t", "i", "o", "n">>, <<"g", "u", "i", "d", "a", "n", "c", "e">>,
                     <<"g", "u", "i", "d", "e", "l", "i", "n", "e", "s">> >>],
    [name |-> <<"I", "n", "d", "u", "s", "t", "r", "y", " ", "N", "e", "w", "s">>,
     keywords |-> << <<"n", "e", "w", "s">>, <<"p", "r", "e", "s", "s">>, <<"a", "r", "t", "i", "c", "l", "e">>, <<"f", "o", "r", "b", "e", "s">>, <<"r", "e", "u", "t", "e", "r", "s">>,
                     <<"b", "l", "o", "o", "m", "b", "e", "r", "g">> >>],
    [name |-> <<"C", "o", "m", "p", "a", "n", "y", " ", "R", "e", "s", "o", "u", "r", "c", "e", "s">>,
     keywords |-> << <<"c", "o", "m", "p", "a", "n", "y">>, <<"c", "o", "r", "p", "o", "r", "a", "t", "e">>, <<"i", "n", "v", "e", "s", "t", "o", "r">>, <<"p", "r", "e", "s", "e", "n", "t", "a", "t", "i", "o", "n">>,
                     <<"a", "n", "n", "u", "a", "l", " ", "r", "e", "p", "o", "r", "t">> >>],
    [name |-> <<"H", "e", "a", "l", "t", "h", "c", "a", "r", "e", " ", "O", "r", "g", "a", "n", "i", "z", "a", "t", "i", "o", "n", "s">>,
     keywords |-> << <<"h", "o", "s", "p", "i", "t", "a", "l">>, <<"c", "l", "i", "n", "i", "c">>, <<"m", "e", "d", "i", "c", "a", "l", " ", "c", "e", "n", "t", "e", "r">>, <<"h", "e", "a", "l", "t", "h">>, <<"c", "a", "r", "e">>,
                     <<"w", "h", "o", ".", "i", "n", "t">> >>]
  >>

OtherSources == <<"O", "t", "h", "e", "r", " ", "S", "o", "u", "r", "c", "e", "s">>

\* any(keyword in text_lower or keyword in domain for keyword in keywords)
CategoryMatches(c, text_lower, domain) ==
    \E k \in 1..Len(Categories[c].keywords) :
        \/ Contains(text_lower, Categories[c].keywords[k])
        \/ Contains(domain, Categories[c].keywords[k])

\* categorize_source with the table searched from its last row
CategorizeLastMatch(text, url) ==
    LET text_lower == Lower(text)
        domain == Lower(UrlNetloc(url))
        hits == {c \in 1..Len(Categories) : CategoryMatches(c, text_lower, domain)}
    IN  IF hits = {} THEN OtherSources
        ELSE Categories[CHOOSE c \in hits : \A d \in hits : c >= d].name

\* the value categorize_source returns when urlparse does not raise
categorize_source(text, url) ==
    LET text_lower == Lower(text)
        domain == Lower(UrlNetloc(url))
        hits == {c \in 1..Len(Categories) : CategoryMatches(c, text_lower, domain)}
    IN  IF hits = {} THEN OtherSources
        ELSE Categories[CHOOSE c \in hits : \A d \in hits : c <= d].name

(***************************************************************************)
(* extract_markdown_links                                                  *)
(***************************************************************************)

\* the pattern \[([^\]]+)\]\(([^)]+)\) matched at position p of line:
\* the label runs to the first ']' and the url to the first ')' after "]("
LinkMatchAt(line, p) ==
    LET q == FirstIdx(line, p + 1, "]")
        r == IF q = 0 THEN 0 ELSE FirstIdx(line, q + 2, ")")
    IN  IF /\ line[p] = "["
           /\ q > p + 1
           /\ q + 1 <= Len(line)
           /\ line[q + 1] = "("
           /\ r > q + 2
        THEN [found |-> TRUE, text |-> SubSeq(line, p + 1, q - 1),
              url |-> SubSeq(line, q + 2, r - 1), end |-> r]
        ELSE [found |-> FALSE, text |-> <<>>, url |-> <<>>, end |-> 0]

\* re.finditer(pattern, line): leftmost matches that do not overlap
RECURSIVE LinkMatches(_, _)
LinkMatches(line, from) ==
    LET starts == {p \in from..Len(line) : LinkMatchAt(line, p).found}
    IN  IF starts = {} THEN <<>>
        ELSE LET m == LinkMatchAt(line, CHOOSE i \in starts : \A j \in starts : i <= j)
             IN  <<m>> \o LinkMatches(line, m.end + 1)

General == <<"G", "e", "n", "e", "r", "a", "l">>

\* current_section after the heading test of lines 82-83 on this line
NextSection(current_section, line) ==
    IF StartsWith(Strip(line), <<"#">>)
    THEN Strip(StripChars(line, {"#"}))
    ELSE current_section

\* LineLinks with the label of the match taken as its context
LineLinksLabelAsContext(line, current_section) ==
    LET ms == LinkMatches(line, 1)
    IN  [k \in 1..Len(ms) |->
            [text |-> ms[k].text, url |-> ms[k].url, context |-> ms[k].text,
             section |-> current_section,
             category |-> categorize_source(ms[k].text, ms[k].url)]]

\* the dicts appended for one line (lines 85-99)
LineLinks(line, current_section) ==
    LET ms == LinkMatches(line, 1)
    IN  [k \in 1..Len(ms) |->
            [text |-> ms[k].text, url |-> ms[k].url, context |-> Strip(line),
             section |-> current_section,
             category |-> categorize_source(ms[k].text, ms[k].url)]]

\* the loop of lines 81-99 over lines[i..], entered with current_section
RECURSIVE LinksFrom(_, _, _)
LinksFrom(lines, i, current_section) ==
    IF i > Len(lines) THEN <<>>
    ELSE LET sec == NextSection(current_section, lines[i])
         IN  LineLinks(lines[i], sec) \o LinksFrom(lines, i + 1, sec)

\* the value extract_markdown_links returns when no categorize_source call raises
extract_markdown_links(text) == LinksFrom(Split(text, "\n"), 1, General)

\* some categorize_source call of extract_markdown_links raises ValueError
ExtractRaises(text) ==
    LET lines == Split(text, "\n")
    IN  \E i \in 1..Len(lines) :
            LET ms == LinkMatches(lines[i], 1)
            IN  \E k \in 1..Len(ms) : UrlRaises(ms[k].url)

(***************************************************************************)
(* generate_report_file: sections and body blocks                          *)
(***************************************************************************)

\* SectionsFrom without current_section = [] (line 190): every section then
\* repeats the lines of the sections before it
RECURSIVE SectionsFromNoReset(_, _, _, _)
SectionsFromNoReset(lines, i, secs, cur) ==
    IF i > Len(lines)
    THEN IF cur # <<>> THEN Append(secs, Join(cur, <<"\n">>)) ELSE secs
    ELSE IF StartsWith(Strip(lines[i]), <<"#">>) /\ cur # <<>>
         THEN SectionsFromNoReset(lines, i + 1, Append(secs, Join(cur, <<"\n">>)),
                                  Append(cur, Strip(lines[i])))
         ELSE SectionsFromNoReset(lines, i + 1, secs, Append(cur, Strip(lines[i])))

\* the loop of lines 186-191 over lines[i..]; secs and cur are the lists
\* sections and current_section on entry; followed by lines 193-194
RECURSIVE SectionsFrom(_, _, _, _)
SectionsFrom(lines, i, secs, cur) ==
    IF i > Len(lines)
    THEN IF cur # <<>> THEN Append(secs, Join(cur, <<"\n">>)) ELSE secs
    ELSE IF StartsWith(Strip(lines[i]), <<"#">>) /\ cur # <<>>
         THEN SectionsFrom(lines, i + 1, Append(secs, Join(cur, <<"\n">>)),
                           <<Strip(lines[i])>>)
         ELSE SectionsFrom(lines, i + 1, secs, Append(cur, Strip(lines[i])))

BuildSections(text) == SectionsFrom(Split(text, "\n"), 1, <<>>, <<>>)

\* the largest level doc.add_heading is given (line 202)
MaxHeadingLevel == 9

\* HeadingLevel without the min(..., 9)
HeadingLevelUnclamped(line) == Count(line, "#")

\* level = min(line.count('#'), 9)
HeadingLevel(line) ==
    IF Count(line, "#") < MaxHeadingLevel THEN Count(line, "#") ELSE MaxHeadingLevel

\* text = line.replace('#', '').strip()
HeadingText(line) == Strip(Remove(line, "#"))

\* text = line.strip('> ').strip()
QuoteText(line) == Strip(StripChars(line, {">", " "}))

\* text = line.strip('- ').strip('* ').strip()
BulletText(line) == Strip(StripChars(StripChars(line, {"-", " "}), {"*", " "}))

\* text = line.strip('1. ').strip()
NumberedText(line) == Strip(StripChars(line, {"1", ".", " "}))

Block(kind, level, text) == [kind |-> kind, level |-> level, text |-> text]

\* LineKind with any digit accepted where the source tests for '1. '
LineKindAnyDigit(s) ==
    IF StartsWith(s, <<"#">>) THEN "Heading"
    ELSE IF StartsWith(s, <<">">>) THEN "Quote"
    ELSE IF StartsWith(s, <<"-", " ">>) \/ StartsWith(s, <<"*", " ">>) THEN "BulletItem"
    ELSE IF Len(s) >= 3 /\ s[1] \in Digits /\ SubSeq(s, 2, 3) = <<".", " ">>
    THEN "NumberedItem"
    ELSE IF s # <<>> THEN "Paragraph"
    ELSE "None"

\* the conditions of the if/elif chain of lines 201-218, on line.strip():
\* the kind of block the line adds to doc ("None": it adds nothing)
LineKind(s) ==
    IF StartsWith(s, <<"#">>) THEN "Heading"
    ELSE IF StartsWith(s, <<">">>) THEN "Quote"
    ELSE IF StartsWith(s, <<"-", " ">>) \/ StartsWith(s, <<"*", " ">>) THEN "BulletItem"
    ELSE IF StartsWith(s, <<"1", ".", " ">>) THEN "NumberedItem"
    ELSE IF s # <<>> THEN "Paragraph"
    ELSE "None"

\* the bodies of the if/elif chain of lines 201-218 for one line of a section:
\* the blocks it adds to doc (none or one)
LineBlocks(line) ==
    LET kind == LineKind(Strip(line))
    IN  IF kind = "Heading"
        THEN <<Block("Heading", HeadingLevel(line), HeadingText(line))>>
        ELSE IF kind = "Quote"
        THEN <<Block("Quote", 0, QuoteText(line))>>
        ELSE IF kind = "BulletItem"
        THEN <<Block("BulletItem", 0, BulletText(line))>>
        ELSE IF kind = "NumberedItem"
        THEN <<Block("NumberedItem", 0, NumberedText(line))>>
        ELSE IF kind = "Paragraph"
        THEN <<Block("Paragraph", 0, Strip(line))>>
        ELSE <<>>

RECURSIVE LinesBlocks(_)
LinesBlocks(lines) ==
    IF lines = <<>> THEN <<>>
    ELSE LineBlocks(Head(lines)) \o LinesBlocks(Tail(lines))

\* the loop of lines 197-218 over the sections list
RECURSIVE SectionsBlocks(_)
SectionsBlocks(secs) ==
    IF secs = <<>> THEN <<>>
    ELSE (IF Strip(Head(secs)) # <<>>
          THEN LinesBlocks(Split(Head(secs), "\n"))
          ELSE <<>>) \o SectionsBlocks(Tail(secs))

(***************************************************************************)
(* format_sources_section                                                  *)
(***************************************************************************)

SourceBlock(kind, level, text, url, has_context, context) ==
    [kind |-> kind, level |-> level, text |-> text, url |-> url,
     has_context |-> has_context, context |-> context]

\* CategoryOrder with a new category put in front of those seen before
RECURSIVE CategoryOrderNewestFirst(_, _)
CategoryOrderNewestFirst(ls, seen) ==
    IF ls = <<>> THEN seen
    ELSE IF \E k \in 1..Len(seen) : seen[k] = Head(ls).category
         THEN CategoryOrderNewestFirst(Tail(ls), seen)
         ELSE CategoryOrderNewestFirst(Tail(ls), <<Head(ls).category>> \o seen)

\* the keys of the dict categories (lines 131-136), in insertion order
RECURSIVE CategoryOrder(_, _)
CategoryOrder(ls, seen) ==
    IF ls = <<>> THEN seen
    ELSE IF \E k \in 1..Len(seen) : seen[k] = Head(ls).category
         THEN CategoryOrder(Tail(ls), seen)
         ELSE CategoryOrder(Tail(ls), Append(seen, Head(ls).category))

\* SourceEntry with link['text'] written on the URL line
SourceEntryLabelAsUrl(link) ==
    [kind |-> "Entry", level |-> 0, text |-> link.text, url |-> link.text,
     has_context |-> link.context # link.text,
     context |-> IF link.context # link.text THEN link.context ELSE <<>>]

\* the bulleted paragraph of lines 142-147 for one link
SourceEntry(link) ==
    SourceBlock("Entry", 0, link.text, link.url, link.context # link.text,
                IF link.context # link.text THEN link.context ELSE <<>>)

\* lines 139-147 for the categories cats[i..]
RECURSIVE CategoryBlocks(_, _, _)
CategoryBlocks(ls, cats, i) ==
    IF i > Len(cats) THEN <<>>
    ELSE LET mine == SelectSeq(ls, LAMBDA l : l.category = cats[i])
         IN  <<SourceBlock("Heading", 2, cats[i], <<>>, FALSE, <<>>)>>
                \o [k \in 1..Len(mine) |-> SourceEntry(mine[k])]
                \o CategoryBlocks(ls, cats, i + 1)

\* format_sources_section without the test of lines 125-126
FormatSourcesAlways(ls) ==
    <<SourceBlock("Heading", 1, <<"S", "o", "u", "r", "c", "e", "s">>, <<>>, FALSE, <<>>)>>
        \o CategoryBlocks(ls, CategoryOrder(ls, <<>>), 1)

\* what format_sources_section(doc, links) adds to doc
format_sources_section(ls) ==
    IF ls = <<>> THEN <<>>
    ELSE <<SourceBlock("Heading", 1, <<"S", "o", "u", "r", "c", "e", "s">>, <<>>, FALSE, <<>>)>>
            \o CategoryBlocks(ls, CategoryOrder(ls, <<>>), 1)

(***************************************************************************)
(* extract_company_name, sanitize_filename                                 *)
(***************************************************************************)

\* content.split('\n')[:10]
FirstLinesCount == 10

\* any(word in line.lower() for word in ['overview', 'analysis', 'report'])
IsKeywordLine(line) ==
    \E w \in {<<"o", "v", "e", "r", "v", "i", "e", "w">>, <<"a", "n", "a", "l", "y", "s", "i", "s">>, <<"r", "e", "p", "o", "r", "t">>} : Contains(Lower(line), w)

\* words = line.strip('#').strip().split()
NameWords(line) == Words(Strip(StripChars(line, {"#"})))

\* the indices i with words[i].lower() in ['of', 'for', 'about']
OfIndices(words) ==
    {i \in 1..Len(words) : Lower(words[i]) \in {<<"o", "f">>, <<"f", "o", "r">>, <<"a", "b", "o", "u", "t">>}}

\* NameAfterOf with words[i:i+2]: the slice starts one word early
NameFromOf(line) ==
    LET words == NameWords(line)
        i == CHOOSE k \in OfIndices(words) : \A j \in OfIndices(words) : k <= j
    IN  Join(SubSeq(words, i, IF i + 1 < Len(words) THEN i + 1 ELSE Len(words)),
             <<" ">>)

\* ' '.join(words[i+1:i+3]) for the first such i
NameAfterOf(line) ==
    LET words == NameWords(line)
        i == CHOOSE k \in OfIndices(words) : \A j \in OfIndices(words) : k <= j
    IN  Join(SubSeq(words, i + 1, IF i + 2 < Len(words) THEN i + 2 ELSE Len(words)),
             <<" ">>)

extract_company_name(text) ==
    LET first_lines == Take(Split(text, "\n"), FirstLinesCount)
        named == {i \in 1..Len(first_lines) :
                    /\ IsKeywordLine(first_lines[i])
                    /\ OfIndices(NameWords(first_lines[i])) # {}}
        plain == {i \in 1..Len(first_lines) :
                    /\ Strip(first_lines[i]) # <<>>
                    /\ ~StartsWith(first_lines[i], <<"#">>)}
    IN  IF named # {}
        THEN NameAfterOf(first_lines[CHOOSE i \in named : \A j \in named : i <= j])
        ELSE IF plain # {}
        THEN Join(Take(Words(first_lines[CHOOSE i \in plain : \A j \in plain : i <= j]),
                       2), <<" ">>)
        ELSE <<"C", "o", "m", "p", "a", "n", "y">>

\* the characters re.sub(r'[<>:"/\\|?*]', '', filename) removes
InvalidFilenameChars == {"<", ">", ":", "\"", "/", "\\", "|", "?", "*"}

\* sanitize_filename with the path separators left out of the character class
SanitizeKeepsSeparators(filename) ==
    Strip(Join(Words(SelectSeq(filename,
                               LAMBDA c : c \notin InvalidFilenameChars \ {"/", "\\"})),
               <<" ">>))

sanitize_filename(filename) ==
    Strip(Join(Words(SelectSeq(filename, LAMBDA c : c \notin InvalidFilenameChars)),
               <<" ">>))

\* lines 227-229
ReportPath(text) ==
    <<"r", "e", "p", "o", "r", "t", "s", "/">> \o sanitize_filename(<<"M", "a", "r", "k", "e", "t", " ", "A", "n", "a", "l", "y", "s", "i", "s", " ", "o", "f", " ">>
                                      \o extract_company_name(text) \o <<".", "d", "o", "c", "x">>)

(***************************************************************************)
(* The input: research_data is a sequence of pieces, a piece being either  *)
(* plain text or one inline link; str(research_data) writes a link piece   *)
(* as [label](url).                                                        *)
(***************************************************************************)

TextPiece(t) == [label |-> <<>>, url |-> <<>>, text |-> t]

LinkPiece(l, u) == [label |-> l, url |-> u, text |-> <<>>]

IsLink(piece) == piece.label # <<>>

\* the text of one piece
PieceText(piece) ==
    IF IsLink(piece)
    THEN <<"[">> \o piece.label \o <<"]", "(">> \o piece.url \o <<")">>
    ELSE piece.text

\* content = str(research_data)
Str(data) == Concat([i \in 1..Len(data) |-> PieceText(data[i])])

\* the largest number of pieces of an input
MaxPieces == 3

Inputs(pieces) == UNION {[1..n -> pieces] : n \in 0..MaxPieces}

\* pieces for the block parser: markers, interior '#', blanks, line breaks
BlockPieces ==
    {TextPiece(t) : t \in {<<"#">>, <<"#", "#", "#", "#", "#">>, <<" ">>, <<"a">>, <<"b", "#", "c">>, <<">">>, <<"-", " ">>, <<"*", " ">>,
                           <<"1", ".", " ">>, <<"2", ".", " ">>, <<"\n">>, <<"\n", "\n">>}}

\* pieces for the link scanner: links over a few labels and urls, headings
\* and line breaks
LinkLabels == {<<"R", "e", "u", "t", "e", "r", "s">>, <<"a">>}

LinkUrls == {<<"h", "t", "t", "p", "s", ":", "/", "/", "r", "e", "u", "t", "e", "r", "s", ".", "c", "o", "m", "/", "a", "c", "m", "e">>, <<"u">>, <<"/", "/", "[">>}

LinkPieces ==
    {LinkPiece(l, u) : l \in LinkLabels, u \in LinkUrls}
        \cup {TextPiece(t) : t \in {<<"\n">>, <<"#", " ", "T">>, <<" ", "#", "T">>}}

\* pieces for the file name: keyword lines with and without the words after
\* 'of' or 'for', plain and heading lines, line breaks up to the tenth line,
\* and characters a file name must not hold
NamePieces ==
    {TextPiece(t) : t \in {<<"#", "#", " ", "O", "v", "e", "r", "v", "i", "e", "w">>, <<" ", "o", "f", " ">>, <<"R", "e", "p", "o", "r", "t", " ", "F", "O", "R", " ">>, <<"A", "c", "m", "e", " ", "R", "o", "b", "o", "t", "i", "c", "s">>,
                           <<"\n">>, <<"\n", "\n", "\n", "\n", "\n", "\n", "\n", "\n", "\n">>, <<" ", "#", "T">>, <<"<", ":", "\"", "/", "\\", "|", "?", "*", ">">>}}

\* pieces for the category table: labels and hosts that hold 'research paper'
\* or 'annual report', and a citation no keyword matches
CategoryLabels == {<<"R", "e", "s", "e", "a", "r", "c", "h", " ", "P", "a", "p", "e", "r">>, <<"A", "n", "n", "u", "a", "l", " ", "R", "e", "p", "o", "r", "t">>, <<"a">>}

CategoryUrls == {<<"/", "/", "a", "n", "n", "u", "a", "l", " ", "r", "e", "p", "o", "r", "t">>, <<"/", "/", "R", "e", "s", "e", "a", "r", "c", "h", " ", "P", "a", "p", "e", "r">>}

CategoryPieces ==
    {LinkPiece(l, <<"u">>) : l \in CategoryLabels}
        \cup {LinkPiece(<<"a">>, u) : u \in CategoryUrls}

\* inputs of the concurrent invocations: two reports on the same company,
\* a report on another one, and a report that names none
ConcInputs ==
    { <<TextPiece(<<"O", "v", "e", "r", "v", "i", "e", "w", " ", "o", "f", " ", "A", "c", "m", "e">>)>>,
      <<TextPiece(<<"#", " ", "O", "v", "e", "r", "v", "i", "e", "w", " ", "o", "f", " ", "A", "c", "m", "e">>), TextPiece(<<"\n">>), TextPiece(<<"a">>)>>,
      <<TextPiece(<<"R", "e", "p", "o", "r", "t", " ", "f", "o", "r", " ", "B", "o", "l", "t", " ", "(", "s", "o", "u", "r", "c", "e", ":", " ", "h", "t", "t", "p", ":", "/", "/", "b", ".", "c", ")">>)>>,
      <<TextPiece(<<"#", " ", "T">>)>> }

(***************************************************************************)
(* The invocations of generate_report_file and the file system they share  *)
(***************************************************************************)

\* the sessions that may be inside generate_report_file at the same time
\* (app.py line 364 runs in the script thread of each browser session)
Procs == {"s1", "s2"}

NoFiles == [f \in {} |-> <<>>]

\* Python's None where a text is expected: equal to no text
None == <<"None">>

\* app.py lines 291-294: st.session_state after the first run of the script;
\* the key search_query is absent (None here) until line 368 sets it
NewSessionState ==
    [report_generated |-> FALSE, report_content |-> None, report_path |-> None,
     search_query |-> None]

\* no call of process_markdown is under way
NoMarkdown ==
    [lines |-> <<>>, i |-> 0, in_list |-> FALSE, processed_lines |-> <<>>,
     result |-> None]

\* the locals of generate_report_file and the sessions' pages before any call
InitLocals ==
    /\ content = [p \in Procs |-> <<>>]
    /\ links = [p \in Procs |-> <<>>]
    /\ sections = [p \in Procs |-> <<>>]
    /\ blocks = [p \in Procs |-> <<>>]
    /\ sources = [p \in Procs |-> <<>>]
    /\ dir_seen = [p \in Procs |-> FALSE]
    /\ company_name = [p \in Procs |-> <<>>]
    /\ report_path = [p \in Procs |-> <<>>]
    /\ exc = [p \in Procs |-> "none"]
    /\ files = NoFiles
    /\ session_state = [p \in Procs |-> NewSessionState]
    /\ search_query = [p \in Procs |-> <<>>]
    /\ submissions = [p \in Procs |-> <<>>]
    /\ kickoffs = [p \in Procs |-> <<>>]
    /\ error = [p \in Procs |-> "none"]
    /\ nav = [p \in Procs |-> <<>>]

\* the state at the call of generate_report_file, for the given arguments, on
\* a file system that does not fail; a session that makes no call is "idle"
InitCall(data, calling) ==
    /\ research_data = data
    /\ pc = [p \in Procs |-> IF p \in calling THEN "call" ELSE "idle"]
    /\ reports_dir \in BOOLEAN
    /\ disk_faults = FALSE
    /\ markdown = NoMarkdown
    /\ InitLocals

\* lines 161-168: content = process_inline_citations(str(research_data))
Start(p) ==
    /\ pc[p] = "call"
    /\ content' = [content EXCEPT ![p] = process_inline_citations(Str(research_data[p]))]
    /\ pc' = [pc EXCEPT ![p] = "links"]
    /\ UNCHANGED <<ui, company_name, research_data, links, sections, blocks, sources, dir_seen,
                   report_path, exc, reports_dir, files>>

\* line 171: links = extract_markdown_links(content); a ValueError of urlparse
\* leaves generate_report_file
ExtractLinks(p) ==
    /\ pc[p] = "links"
    /\ IF ExtractRaises(content[p])
       THEN /\ pc' = [pc EXCEPT ![p] = "raised"]
            /\ exc' = [exc EXCEPT ![p] = "ValueError"]
            /\ UNCHANGED links
       ELSE /\ pc' = [pc EXCEPT ![p] = "sections"]
            /\ links' = [links EXCEPT ![p] = extract_markdown_links(content[p])]
            /\ UNCHANGED exc
    /\ UNCHANGED <<ui, company_name, research_data, content, sections, blocks, sources, dir_seen,
                   report_path, reports_dir, files>>

\* lines 183-194
SplitSections(p) ==
    /\ pc[p] = "sections"
    /\ sections' = [sections EXCEPT ![p] = BuildSections(content[p])]
    /\ pc' = [pc EXCEPT ![p] = "blocks"]
    /\ UNCHANGED <<ui, company_name, research_data, content, links, blocks, sources, dir_seen,
                   report_path, exc, reports_dir, files>>

\* lines 197-218
ProcessSections(p) ==
    /\ pc[p] = "blocks"
    /\ blocks' = [blocks EXCEPT ![p] = SectionsBlocks(sections[p])]
    /\ pc' = [pc EXCEPT ![p] = "sources"]
    /\ UNCHANGED <<ui, company_name, research_data, content, links, sections, sources, dir_seen,
                   report_path, exc, reports_dir, files>>

\* line 221
FormatSources(p) ==
    /\ pc[p] = "sources"
    /\ sources' = [sources EXCEPT ![p] = format_sources_section(links[p])]
    /\ pc' = [pc EXCEPT ![p] = "exists"]
    /\ UNCHANGED <<ui, company_name, research_data, content, links, sections, blocks, dir_seen,
                   report_path, exc, reports_dir, files>>

\* line 224: os.path.exists('reports')
CheckDir(p) ==
    /\ pc[p] = "exists"
    /\ dir_seen' = [dir_seen EXCEPT ![p] = reports_dir]
    /\ pc' = [pc EXCEPT ![p] = IF reports_dir THEN "save" ELSE "makedirs"]
    /\ UNCHANGED <<ui, company_name, research_data, content, links, sections, blocks, sources,
                   report_path, exc, reports_dir, files>>

\* the outcomes of one file system operation: TRUE it is carried out, FALSE it
\* fails with an OSError
DiskOutcomes == IF disk_faults THEN BOOLEAN ELSE {TRUE}

\* line 225: os.makedirs('reports') raises FileExistsError when the directory
\* exists by now, and OSError when the file system fails
MakeDirs(p) ==
    /\ pc[p] = "makedirs"
    /\ \E ok \in DiskOutcomes :
         IF reports_dir \/ ~ok
         THEN /\ pc' = [pc EXCEPT ![p] = "raised"]
              /\ exc' = [exc EXCEPT ![p] = IF reports_dir THEN "FileExistsError"
                                           ELSE "OSError"]
              /\ UNCHANGED reports_dir
         ELSE /\ pc' = [pc EXCEPT ![p] = "save"]
              /\ reports_dir' = TRUE
              /\ UNCHANGED exc
    /\ UNCHANGED <<ui, company_name, research_data, content, links, sections, blocks, sources,
                   dir_seen, report_path, files>>

\* the document doc.save writes: the body blocks, then the sources section
Document(p) == [body |-> blocks[p], sources |-> sources[p]]

\* Save with the failure of doc.save caught and ignored: the path is returned
\* though nothing was written
SaveSwallowsFailure(p) ==
    /\ pc[p] = "save"
    /\ \E ok \in DiskOutcomes :
         LET path == ReportPath(content[p])
         IN  /\ company_name' = [company_name EXCEPT ![p] =
                                       extract_company_name(content[p])]
             /\ report_path' = [report_path EXCEPT ![p] = path]
             /\ files' = IF ok
                         THEN [f \in DOMAIN files \cup {path} |->
                                    IF f = path THEN [body |-> blocks[p],
                                                      sources |-> sources[p]]
                                    ELSE files[f]]
                         ELSE files
             /\ pc' = [pc EXCEPT ![p] = "done"]
    /\ UNCHANGED <<ui, research_data, content, links, sections, blocks, sources,
                   dir_seen, exc, reports_dir>>

\* lines 227-233: doc.save(report_path) replaces what the path held, or raises
\* OSError when the file system fails; nothing catches it
Save(p) ==
    /\ pc[p] = "save"
    /\ \E ok \in DiskOutcomes :
         LET path == ReportPath(content[p])
         IN  IF ok
             THEN /\ company_name' = [company_name EXCEPT ![p] =
                                            extract_company_name(content[p])]
                  /\ report_path' = [report_path EXCEPT ![p] = path]
                  /\ files' = [f \in DOMAIN files \cup {path} |->
                                   IF f = path THEN Document(p) ELSE files[f]]
                  /\ pc' = [pc EXCEPT ![p] = "done"]
                  /\ UNCHANGED exc
             ELSE /\ pc' = [pc EXCEPT ![p] = "raised"]
                  /\ exc' = [exc EXCEPT ![p] = "OSError"]
                  /\ company_name' = [company_name EXCEPT ![p] =
                                            extract_company_name(content[p])]
                  /\ UNCHANGED <<report_path, files>>
    /\ UNCHANGED <<ui, research_data, content, links, sections, blocks, sources,
                   dir_seen, reports_dir>>

Next ==
    \E p \in Procs :
        \/ Start(p)
        \/ ExtractLinks(p)
        \/ SplitSections(p)
        \/ ProcessSections(p)
        \/ FormatSources(p)
        \/ CheckDir(p)
        \/ MakeDirs(p)
        \/ Save(p)

\* one invocation, on markdown block input
Init ==
    \E d \in Inputs(BlockPieces) :
        InitCall([p \in Procs |-> IF p = "s1" THEN d ELSE <<>>], {"s1"})

Spec == Init /\ [][Next]_vars

\* one invocation, on input with inline links
InitLinks ==
    \E d \in Inputs(LinkPieces) :
        InitCall([p \in Procs |-> IF p = "s1" THEN d ELSE <<>>], {"s1"})

SpecLinks == InitLinks /\ [][Next]_vars

\* two sessions generating reports at the same time
InitConc ==
    \E d \in [Procs -> ConcInputs] :
        /\ \A p, q \in Procs : p # q => d[p] # d[q]
        /\ InitCall(d, Procs)

SpecConc == InitConc /\ [][Next]_vars

\* one invocation, on input the file name is derived from
InitNames ==
    \E d \in Inputs(NamePieces) :
        InitCall([p \in Procs |-> IF p = "s1" THEN d ELSE <<>>], {"s1"})

SpecNames == InitNames /\ [][Next]_vars

\* one invocation, on input with citations for the category table
InitCategories ==
    \E d \in Inputs(CategoryPieces) :
        InitCall([p \in Procs |-> IF p = "s1" THEN d ELSE <<>>], {"s1"})

SpecCategories == InitCategories /\ [][Next]_vars

(***************************************************************************)
(* app.py: create_section_id, process_markdown, the side navigation        *)
(***************************************************************************)

\* re.sub(r'[^a-z0-9-]', '', header.lower().replace(' ', '-'))
create_section_id(header) ==
    SelectSeq([i \in 1..Len(header) |->
                    IF header[i] = " " THEN "-" ELSE LowerChar(header[i])],
              LAMBDA c : c \in Digits \cup {LowerCase[i] : i \in 1..26} \cup {"-"})

\* len(line) - len(line.lstrip('#'))
LeadingHashCount(line) ==
    LET others == {i \in 1..Len(line) : line[i] # "#"}
    IN  IF others = {} THEN Len(line)
        ELSE (CHOOSE i \in others : \A j \in others : i <= j) - 1

\* re.sub(r'^\d+\.\s*', '', text): a leading number, its dot and the blanks
\* after it are removed
RemoveNumbering(text) ==
    LET nondigits == {i \in 1..Len(text) : text[i] \notin Digits}
        dot == IF nondigits = {} THEN 0
               ELSE CHOOSE i \in nondigits : \A j \in nondigits : i <= j
        rest == {i \in (dot + 1)..Len(text) : text[i] \notin Whitespace}
    IN  IF dot > 1 /\ text[dot] = "."
        THEN IF rest = {} THEN <<>>
             ELSE Drop(text, CHOOSE i \in rest : \A j \in rest : i <= j)
        ELSE text

\* text.lower().startswith(('comprehensive', 'market research', 'generated'))
IsTitleLine(text) ==
    \E w \in {<<"c", "o", "m", "p", "r", "e", "h", "e", "n", "s", "i", "v", "e">>, <<"m", "a", "r", "k", "e", "t", " ", "r", "e", "s", "e", "a", "r", "c", "h">>, <<"g", "e", "n", "e", "r", "a", "t", "e", "d">>} :
        StartsWith(Lower(text), w)

\* lines 401-408 for one line of the report: the section it adds (none or one)
NavSection(line) ==
    LET text == RemoveNumbering(Strip(StripChars(line, {"#"})))
    IN  IF StartsWith(Strip(line), <<"#", "#", " ">>) /\ ~IsTitleLine(text)
        THEN <<text>> ELSE <<>>

\* lines 399-422: the links of the side navigation, each with its text and the
\* id its href points to
NavLinks(report_content) ==
    LET lines == Split(report_content, "\n")
        secs == Concat([i \in 1..Len(lines) |-> NavSection(lines[i])])
    IN  [k \in 1..Len(secs) |-> [text |-> secs[k], id |-> create_section_id(secs[k])]]

\* one line of the markup process_markdown emits
Markup(tag, level, id, text) == [tag |-> tag, level |-> level, id |-> id, text |-> text]

\* the pattern \[(.*?)\]\((.*?)\) matched at position p of s: label and url are
\* the shortest texts that let the pattern match
SourceLinkAt(s, p) ==
    LET mids == {q \in (p + 1)..(Len(s) - 1) : s[q] = "]" /\ s[q + 1] = "("}
        q == IF mids = {} THEN 0 ELSE CHOOSE i \in mids : \A j \in mids : i <= j
        r == IF q = 0 THEN 0 ELSE FirstIdx(s, q + 2, ")")
    IN  IF s[p] = "[" /\ r > 0
        THEN [found |-> TRUE, text |-> SubSeq(s, p + 1, q - 1),
              url |-> SubSeq(s, q + 2, r - 1), end |-> r]
        ELSE [found |-> FALSE, text |-> <<>>, url |-> <<>>, end |-> 0]

\* re.sub(r'\[(.*?)\]\((.*?)\)', r'<a href="\2" class="source-link">\1</a>', s)
RECURSIVE SubSourceLinks(_)
SubSourceLinks(s) ==
    LET starts == {p \in 1..Len(s) : SourceLinkAt(s, p).found}
    IN  IF starts = {} THEN s
        ELSE LET p == CHOOSE i \in starts : \A j \in starts : i <= j
                 m == SourceLinkAt(s, p)
             IN  SubSeq(s, 1, p - 1)
                    \o <<"<", "a", " ", "h", "r", "e", "f", "=", "\"">> \o m.url \o <<"\"", " ", "c", "l", "a", "s", "s", "=", "\"", "s", "o", "u", "r", "c", "e", "-", "l", "i", "n", "k", "\"", ">">>
                    \o m.text \o <<"<", "/", "a", ">">> \o SubSourceLinks(Drop(s, m.end + 1))

\* lines 225-229: the text of a list item
ListItemText(line) ==
    LET text == Strip(StripChars(line, {"-", " "}))
    IN  IF Contains(Lower(text), <<"s", "o", "u", "r", "c", "e", ":">>) THEN SubSourceLinks(text) ELSE text

\* the branch of the if/elif chain of lines 206-239 a line takes
MarkdownKind(line) ==
    IF StartsWith(Strip(line), <<"#">>) THEN "header"
    ELSE IF StartsWith(Strip(line), <<"*", "*">>) THEN "bold"
    ELSE IF StartsWith(Strip(line), <<"-", " ">>) THEN "item"
    ELSE IF Strip(line) # <<>> THEN "text"
    ELSE "blank"

\* the markup lines 206-239 append for one line, in_list being the flag on entry
MarkdownLine(line, in_list) ==
    LET kind == MarkdownKind(line)
        close == IF in_list THEN <<Markup("/ul", 0, <<>>, <<>>)>> ELSE <<>>
        text == Strip(StripChars(line, {"#"}))
    IN  IF kind = "header"
        THEN close \o << Markup("div", LeadingHashCount(line), create_section_id(text), <<>>),
                         Markup("h", LeadingHashCount(line), <<>>, text),
                         Markup("/div", 0, <<>>, <<>>) >>
        ELSE IF kind = "bold"
        THEN <<Markup("h3", 3, <<>>, Strip(StripChars(line, {"*"})))>>
        ELSE IF kind = "item"
        THEN (IF in_list THEN <<>> ELSE <<Markup("ul", 0, <<>>, <<>>)>>)
                \o <<Markup("li", 0, <<>>, ListItemText(line))>>
        ELSE IF kind = "text"
        THEN close \o <<Markup("p", 0, <<>>, line)>>
        ELSE close \o <<Markup("br", 0, <<>>, <<>>)>>

\* in_list after the line
InListAfter(line, in_list) ==
    IF MarkdownKind(line) = "item" THEN TRUE
    ELSE IF MarkdownKind(line) = "bold" THEN in_list
    ELSE FALSE

\* the loop of lines 205-239 over lines[i..], then lines 241-242
RECURSIVE MarkdownFrom(_, _, _)
MarkdownFrom(lines, i, in_list) ==
    IF i > Len(lines)
    THEN IF in_list THEN <<Markup("/ul", 0, <<>>, <<>>)>> ELSE <<>>
    ELSE MarkdownLine(lines[i], in_list)
            \o MarkdownFrom(lines, i + 1, InListAfter(lines[i], in_list))

\* process_markdown(content): the markup lines it joins
process_markdown(text) == MarkdownFrom(Split(text, "\n"), 1, FALSE)

(***************************************************************************)
(* app.py: main, one script run per interaction of a browser session       *)
(***************************************************************************)

\* what a user submits the form with: the empty text area, or a query
Queries == {<<>>, <<"a", "c", "m", "e">>}

\* the reports crew.kickoff() returns: a report with numbered and plain
\* sections and a citation, a one-line report, a report with a malformed link,
\* and the empty report
CrewResults ==
    { <<TextPiece(<<"#", " ", "R", "e", "p", "o", "r", "t", " ", "o", "n", " ", "A", "c", "m", "e", "\n", "#", "#", " ", "1", ".", " ", "O", "v", "e", "r", "v", "i", "e", "w", "\n", "-", " ", "a", " ">>),
        LinkPiece(<<"R", "e", "u", "t", "e", "r", "s">>, <<"h", "t", "t", "p", "s", ":", "/", "/", "r", "e", "u", "t", "e", "r", "s", ".", "c", "o", "m", "/", "a", "c", "m", "e">>),
        TextPiece(<<"\n", "#", "#", " ", "R", "i", "s", "k", "s">>)>>,
      <<TextPiece(<<"O", "v", "e", "r", "v", "i", "e", "w", " ", "o", "f", " ", "B", "o", "l", "t">>)>>,
      <<LinkPiece(<<"a">>, <<"/", "/", "[">>)>>,
      <<>> }

\* the largest number of form submissions, all sessions together
MaxSubmits == 2

SubmitsMade ==
    LET RECURSIVE Sum(_)
        Sum(S) == IF S = {} THEN 0
                  ELSE LET p == CHOOSE x \in S : TRUE
                       IN  Len(submissions[p]) + Sum(S \ {p})
    IN  Sum(Procs)

\* the script run of session p ends: its local variables are gone
EndRun(p) ==
    /\ research_data' = [research_data EXCEPT ![p] = <<>>]
    /\ search_query' = [search_query EXCEPT ![p] = <<>>]
    /\ content' = [content EXCEPT ![p] = <<>>]
    /\ links' = [links EXCEPT ![p] = <<>>]
    /\ sections' = [sections EXCEPT ![p] = <<>>]
    /\ blocks' = [blocks EXCEPT ![p] = <<>>]
    /\ sources' = [sources EXCEPT ![p] = <<>>]
    /\ dir_seen' = [dir_seen EXCEPT ![p] = FALSE]
    /\ company_name' = [company_name EXCEPT ![p] = <<>>]
    /\ report_path' = [report_path EXCEPT ![p] = <<>>]
    /\ exc' = [exc EXCEPT ![p] = "none"]

\* Submit without the test of search_query at line 359
SubmitAnyQuery(p) ==
    /\ pc[p] = "page"
    /\ ~session_state[p].report_generated
    /\ SubmitsMade < MaxSubmits
    /\ \E q \in Queries :
        /\ submissions' = [submissions EXCEPT ![p] = Append(@, q)]
        /\ search_query' = [search_query EXCEPT ![p] = q]
        /\ kickoffs' = [kickoffs EXCEPT ![p] = Append(@, q)]
        /\ pc' = [pc EXCEPT ![p] = "crew"]
    /\ error' = [error EXCEPT ![p] = "none"]
    /\ UNCHANGED <<research_data, content, links, sections, blocks, sources,
                   dir_seen, company_name, report_path, exc, reports_dir, files,
                   disk_faults, markdown, session_state, nav>>

\* lines 352-363: the form is submitted with query q; with a non-empty query
\* the script calls crew.run_research(q), which calls crew.kickoff()
Submit(p) ==
    /\ pc[p] = "page"
    /\ ~session_state[p].report_generated
    /\ SubmitsMade < MaxSubmits
    /\ \E q \in Queries :
        /\ submissions' = [submissions EXCEPT ![p] = Append(@, q)]
        /\ IF q # <<>>
           THEN /\ search_query' = [search_query EXCEPT ![p] = q]
                /\ kickoffs' = [kickoffs EXCEPT ![p] = Append(@, q)]
                /\ pc' = [pc EXCEPT ![p] = "crew"]
           ELSE UNCHANGED <<search_query, kickoffs, pc>>
    /\ error' = [error EXCEPT ![p] = "none"]
    /\ UNCHANGED <<research_data, content, links, sections, blocks, sources,
                   dir_seen, company_name,
                   report_path, exc, reports_dir, files, disk_faults, markdown,
                   session_state, nav>>

\* crew_setup.py lines 220-235, app.py lines 363-364: crew.kickoff() returns the
\* report, or raises; with the report generate_report_file is called
Kickoff(p) ==
    /\ pc[p] = "crew"
    /\ \E ok \in BOOLEAN, result \in CrewResults :
         IF ok
         THEN /\ research_data' = [research_data EXCEPT ![p] = result]
              /\ pc' = [pc EXCEPT ![p] = "call"]
              /\ UNCHANGED exc
         ELSE /\ pc' = [pc EXCEPT ![p] = "raised"]
              /\ exc' = [exc EXCEPT ![p] = "CrewError"]
              /\ UNCHANGED research_data
    /\ UNCHANGED <<ui, content, links, sections, blocks, sources, dir_seen,
                   company_name, report_path, reports_dir, files>>

\* Return without the assignment of line 368
ReturnWithoutQuery(p) ==
    /\ pc[p] = "done"
    /\ session_state' = [session_state EXCEPT ![p] =
            [report_generated |-> TRUE, report_content |-> content[p],
             report_path |-> report_path[p], search_query |-> @.search_query]]
    /\ pc' = [pc EXCEPT ![p] = "rerun"]
    /\ EndRun(p)
    /\ UNCHANGED <<reports_dir, files, disk_faults, markdown, submissions, kickoffs, error, nav>>

\* lines 364-369: generate_report_file returned; the four session variables
\* are set and the script is run again
Return(p) ==
    /\ pc[p] = "done"
    /\ session_state' = [session_state EXCEPT ![p] =
            [report_generated |-> TRUE, report_content |-> content[p],
             report_path |-> report_path[p], search_query |-> search_query[p]]]
    /\ pc' = [pc EXCEPT ![p] = "rerun"]
    /\ EndRun(p)
    /\ UNCHANGED <<reports_dir, files, disk_faults, markdown, submissions, kickoffs, error, nav>>

\* lines 370-371: except Exception as e: st.error(...); the script ends on the
\* input page
Except(p) ==
    /\ pc[p] = "raised"
    /\ error' = [error EXCEPT ![p] = exc[p]]
    /\ pc' = [pc EXCEPT ![p] = "page"]
    /\ EndRun(p)
    /\ UNCHANGED <<reports_dir, files, disk_faults, markdown, session_state, submissions,
                   kickoffs, nav>>

\* lines 288-486 run without a widget event: the input page, or the report
\* page with its side navigation (lines 399-422)
RenderPage(p) ==
    /\ pc[p] = "rerun"
    /\ nav' = [nav EXCEPT ![p] =
            IF session_state[p].report_generated
            THEN NavLinks(session_state[p].report_content) ELSE <<>>]
    /\ error' = [error EXCEPT ![p] = "none"]
    /\ pc' = [pc EXCEPT ![p] = "page"]
    /\ UNCHANGED <<research_data, content, links, sections, blocks, sources,
                   dir_seen, company_name,
                   report_path, exc, reports_dir, files, disk_faults, markdown,
                   session_state, search_query, submissions, kickoffs>>

\* lines 376-378: the Back button
Back(p) ==
    /\ pc[p] = "page"
    /\ session_state[p].report_generated
    /\ session_state' = [session_state EXCEPT ![p].report_generated = FALSE]
    /\ pc' = [pc EXCEPT ![p] = "rerun"]
    /\ UNCHANGED <<research_data, content, links, sections, blocks, sources,
                   dir_seen, company_name,
                   report_path, exc, reports_dir, files, disk_faults, markdown,
                   search_query, submissions, kickoffs, error, nav>>

\* lines 380-392: the Download button; the script is run again on the report page
Download(p) ==
    /\ pc[p] = "page"
    /\ session_state[p].report_generated
    /\ session_state[p].report_path # None
    /\ pc' = [pc EXCEPT ![p] = "rerun"]
    /\ UNCHANGED <<research_data, content, links, sections, blocks, sources,
                   dir_seen, company_name,
                   report_path, exc, reports_dir, files, ui>>

NextApp ==
    \E p \in Procs :
        \/ Submit(p)
        \/ Kickoff(p)
        \/ Start(p)
        \/ ExtractLinks(p)
        \/ SplitSections(p)
        \/ ProcessSections(p)
        \/ FormatSources(p)
        \/ CheckDir(p)
        \/ MakeDirs(p)
        \/ Save(p)
        \/ Return(p)
        \/ Except(p)
        \/ RenderPage(p)
        \/ Back(p)
        \/ Download(p)

\* the browser sessions after the first run of the script, on a file system
\* whose operations may fail
InitApp ==
    /\ research_data = [p \in Procs |-> <<>>]
    /\ pc = [p \in Procs |-> "page"]
    /\ reports_dir \in BOOLEAN
    /\ disk_faults = TRUE
    /\ markdown = NoMarkdown
    /\ InitLocals

SpecApp == InitApp /\ [][NextApp]_vars

(***************************************************************************)
(* app.py: process_markdown, line by line, and the text it returns         *)
(***************************************************************************)

\* str(n) for a natural number n
RECURSIVE DecimalText(_)
DecimalText(n) ==
    LET digit == <<"0","1","2","3","4","5","6","7","8","9">>[(n % 10) + 1]
    IN  IF n < 10 THEN <<digit>> ELSE DecimalText(n \div 10) \o <<digit>>

UlOpen == <<"<", "u", "l", " ", "c", "l", "a", "s", "s", "=", "\"", "c", "o", "n", "t", "e", "n", "t", "-", "l", "i", "s", "t", "\"", ">">>

UlClose == <<"<", "/", "u", "l", ">">>

LiOpen == <<"<", "l", "i", ">">>

\* the f-strings of lines 208-239: the text appended to processed_lines for
\* one line of markup
Render(m) ==
    IF m.tag = "ul" THEN UlOpen
    ELSE IF m.tag = "/ul" THEN UlClose
    ELSE IF m.tag = "li" THEN LiOpen \o m.text \o <<"<", "/", "l", "i", ">">>
    ELSE IF m.tag = "div"
    THEN <<"<", "d", "i", "v", " ", "i", "d", "=", "\"">> \o m.id \o <<"\"", " ", "c", "l", "a", "s", "s", "=", "\"", "s", "e", "c", "t", "i", "o", "n", "-", "h", "e", "a", "d", "e", "r", " ", "l", "e", "v", "e", "l", "-">>
            \o DecimalText(m.level) \o <<"\"", ">">>
    ELSE IF m.tag = "h"
    THEN <<"<", "h">> \o DecimalText(m.level) \o <<">">> \o m.text
            \o <<"<", "/", "h">> \o DecimalText(m.level) \o <<">">>
    ELSE IF m.tag = "/div" THEN <<"<", "/", "d", "i", "v", ">">>
    ELSE IF m.tag = "h3" THEN <<"<", "h", "3", " ", "c", "l", "a", "s", "s", "=", "\"", "s", "u", "b", "s", "e", "c", "t", "i", "o", "n", "-", "h", "e", "a", "d", "e", "r", "\"", ">">> \o m.text \o <<"<", "/", "h", "3", ">">>
    ELSE IF m.tag = "p" THEN <<"<", "p", ">">> \o m.text \o <<"<", "/", "p", ">">>
    ELSE <<"<", "b", "r", ">">>

RenderAll(ms) == [k \in 1..Len(ms) |-> Render(ms[k])]

\* pieces for process_markdown: items, a heading, a bold line, plain text, a
\* blank, line breaks, and text that holds list tags of its own
MarkdownPieces ==
    {TextPiece(t) : t \in {<<"-", " ", "a">>, <<"\n">>, <<"#", " ", "T">>, <<"*", "*", "b", "*", "*">>, <<"x">>, <<" ">>, <<"<", "l", "i", ">">>, <<"<", "/", "u", "l", ">">>}}

\* MarkdownLoop without the closing of the list at a line of plain text
\* (lines 232-234)
MarkdownLoopTextKeepsList ==
    /\ markdown.i >= 1
    /\ markdown.i <= Len(markdown.lines)
    /\ LET line == markdown.lines[markdown.i]
           keep == markdown.in_list /\ MarkdownKind(line) = "text"
       IN  markdown' = [markdown EXCEPT
                !.processed_lines = @ \o RenderAll(MarkdownLine(line, markdown.in_list /\ ~keep)),
                !.in_list = IF keep THEN FALSE ELSE InListAfter(line, markdown.in_list),
                !.i = @ + 1]
    /\ UNCHANGED <<research_data, content, links, sections, blocks, sources, dir_seen,
                   company_name, report_path, pc, exc, reports_dir, files,
                   disk_faults, session_state, search_query, submissions, kickoffs,
                   error, nav>>

\* lines 205-239: one pass of the loop over lines
MarkdownLoop ==
    /\ markdown.i >= 1
    /\ markdown.i <= Len(markdown.lines)
    /\ LET line == markdown.lines[markdown.i]
       IN  markdown' = [markdown EXCEPT
                !.processed_lines = @ \o RenderAll(MarkdownLine(line, markdown.in_list)),
                !.in_list = InListAfter(line, markdown.in_list),
                !.i = @ + 1]
    /\ UNCHANGED <<research_data, content, links, sections, blocks, sources, dir_seen,
                   company_name, report_path, pc, exc, reports_dir, files,
                   disk_faults, session_state, search_query, submissions, kickoffs,
                   error, nav>>

\* lines 241-244: the list still open is closed and the lines are joined
MarkdownReturn ==
    /\ markdown.i = Len(markdown.lines) + 1
    /\ markdown.result = None
    /\ LET closed == markdown.processed_lines
                        \o (IF markdown.in_list THEN <<UlClose>> ELSE <<>>)
       IN  markdown' = [markdown EXCEPT
                !.processed_lines = closed,
                !.in_list = FALSE,
                !.result = Join(closed, <<"\n">>)]
    /\ UNCHANGED <<research_data, content, links, sections, blocks, sources, dir_seen,
                   company_name, report_path, pc, exc, reports_dir, files,
                   disk_faults, session_state, search_query, submissions, kickoffs,
                   error, nav>>

NextMarkdown == MarkdownLoop \/ MarkdownReturn

\* a call of process_markdown, at line 200
InitMarkdown ==
    \E d \in Inputs(MarkdownPieces) :
        /\ markdown = [lines |-> Split(Str(d), "\n"), i |-> 1, in_list |-> FALSE,
                       processed_lines |-> <<>>, result |-> None]
        /\ research_data = [p \in Procs |-> <<>>]
        /\ pc = [p \in Procs |-> "idle"]
        /\ reports_dir = FALSE
        /\ disk_faults = FALSE
        /\ InitLocals

SpecMarkdown == InitMarkdown /\ [][NextMarkdown]_vars

(***************************************************************************)
(* Properties                                                              *)
(***************************************************************************)

\* the invocations that are past line 171 (extract_markdown_links returned)
LinksDone == {p \in Procs : pc[p] \in {"sections", "blocks", "sources", "exists",
                                       "makedirs", "save", "done"}}

\* the invocations that are past the loop of lines 197-218
BlocksDone == {p \in Procs : pc[p] \in {"sources", "exists", "makedirs", "save",
                                        "done"}}

\* the invocations for which line 171 was reached and left, by return or raise
LinksTried == LinksDone \cup {p \in Procs : exc[p] = "ValueError"}

\* the lines of the input text
InputLines(p) == Split(content[p], "\n")

\* the non-blank lines of the input text, in order, as they stand in the text
NonBlankLines(p) == SelectSeq(InputLines(p), LAMBDA l : Strip(l) # <<>>)

\* the number of '#' characters a line starts with, blanks before them ignored
LeadingHashes(line) ==
    LET s == Strip(line)
        others == {i \in 1..Len(s) : s[i] # "#"}
    IN  IF others = {} THEN Len(s)
        ELSE (CHOOSE i \in others : \A j \in others : i <= j) - 1

\* a line without the blanks before its first character
LStrip(line) ==
    LET keep == {i \in 1..Len(line) : line[i] \notin Whitespace}
    IN  IF keep = {} THEN <<>>
        ELSE Drop(line, CHOOSE i \in keep : \A j \in keep : i <= j)

\* the kind the leading token of a non-empty text t stands for
TokenKind(t) ==
    IF t[1] = "#" THEN "Heading"
    ELSE IF t[1] = ">" THEN "Quote"
    ELSE IF Len(t) >= 2 /\ SubSeq(t, 1, 2) \in {<<"-", " ">>, <<"*", " ">>} THEN "BulletItem"
    ELSE IF Len(t) >= 3 /\ SubSeq(t, 1, 3) = <<"1", ".", " ">> THEN "NumberedItem"
    ELSE "Paragraph"

\* the link pieces of an input, in order
LinksOf(data) == SelectSeq(data, IsLink)

\* C1: for every input text with N inline [label](url) occurrences,
\* extract_markdown_links produces exactly N citations, in order of occurrence,
\* each with the label and the url of its occurrence verbatim.
\* Stated of every invocation in which extract_markdown_links was called.
C1_OneCitationPerOccurrence ==
    \A p \in LinksTried :
        LET occ == LinksOf(research_data[p])
        IN  /\ Len(links[p]) = Len(occ)
            /\ \A k \in 1..Len(occ) :
                    /\ links[p][k].text = occ[k].label
                    /\ links[p][k].url = occ[k].url

\* the category C2 names for a label and a url, the host of the url read as
\* its network location
ClaimedCategory(label, url) ==
    LET hits == {c \in 1..Len(Categories) :
                    CategoryMatches(c, Lower(label), Lower(UrlNetloc(url)))}
    IN  IF hits = {} THEN OtherSources
        ELSE Categories[CHOOSE c \in hits : \A d \in hits : c <= d].name

\* C2: for every label and url, categorize_source returns the first category
\* of the table one of whose keywords is a substring of the lower-cased label
\* or of the url's host, and 'Other Sources' if there is none.
\* Stated of every label and url extract_markdown_links hands to it.
C2_EveryLinkCategorized ==
    \A p \in LinksTried :
        LET occ == LinksOf(research_data[p])
        IN  /\ Len(links[p]) = Len(occ)
            /\ \A k \in 1..Len(occ) :
                    links[p][k].category = ClaimedCategory(occ[k].label, occ[k].url)

\* C3: the level of a Heading block is the number of leading '#' characters of
\* its line, clamped to 9, whatever the rest of the line holds.
C3_LevelIsLeadingHashes ==
    \A p \in BlocksDone :
        \A k \in 1..Len(blocks[p]) :
            blocks[p][k].kind = "Heading" =>
                LET n == LeadingHashes(NonBlankLines(p)[k])
                IN  blocks[p][k].level = IF n < MaxHeadingLevel THEN n
                                         ELSE MaxHeadingLevel

\* C4: the text of a Heading block is its line with only the leading and
\* trailing '#' characters and whitespace stripped; the interior is preserved.
C4_HeadingTextKeepsInterior ==
    \A p \in BlocksDone :
        \A k \in 1..Len(blocks[p]) :
            blocks[p][k].kind = "Heading" =>
                blocks[p][k].text =
                    StripChars(NonBlankLines(p)[k], Whitespace \cup {"#"})

\* the text of the last Heading block made from the lines 1..i of the input,
\* 'General' if there is none
RECURSIVE LastHeadingText(_, _)
LastHeadingText(p, i) ==
    IF i = 0 THEN General
    ELSE IF Strip(InputLines(p)[i]) # <<>>
            /\ blocks[p][Len(SelectSeq(SubSeq(InputLines(p), 1, i),
                                       LAMBDA l : Strip(l) # <<>>))].kind = "Heading"
         THEN blocks[p][Len(SelectSeq(SubSeq(InputLines(p), 1, i),
                                      LAMBDA l : Strip(l) # <<>>))].text
         ELSE LastHeadingText(p, i - 1)

\* for each citation in order, the text of the last Heading block at or before
\* the citation's line
RECURSIVE CitationHeadings(_, _)
CitationHeadings(p, i) ==
    IF i > Len(InputLines(p)) THEN <<>>
    ELSE [k \in 1..Len(LinkMatches(InputLines(p)[i], 1)) |-> LastHeadingText(p, i)]
            \o CitationHeadings(p, i + 1)

\* C5: every citation's section is the text of the most recently seen Heading
\* block at or before the citation's line, or 'General' if there is none.
C5_SectionIsLastHeadingText ==
    \A p \in BlocksDone :
        [k \in 1..Len(links[p]) |-> links[p][k].section] = CitationHeadings(p, 1)

\* C6 as first stated: the kind of the block of a non-blank line is decided by
\* the leading token of the line (blanks before the token ignored): '#' Heading,
\* '>' Quote, '- ' or '* ' BulletItem, '1. ' NumberedItem, otherwise Paragraph.
C6_KindByLeadingToken ==
    \A p \in BlocksDone :
        [k \in 1..Len(blocks[p]) |-> blocks[p][k].kind]
            = [k \in 1..Len(NonBlankLines(p)) |->
                    TokenKind(LStrip(NonBlankLines(p)[k]))]

\* C6, amended: the kind of the block of a non-blank line is decided by the
\* leading token of the line with the whitespace at both its ends removed:
\* '#' Heading, '>' Quote, '- ' or '* ' BulletItem, '1. ' NumberedItem, otherwise
\* Paragraph; so a line that holds nothing after '-', '*' or '1.' is a Paragraph.
C6_KindByLeadingTokenOfTrimmedLine ==
    \A p \in BlocksDone :
        [k \in 1..Len(blocks[p]) |-> blocks[p][k].kind]
            = [k \in 1..Len(NonBlankLines(p)) |->
                    TokenKind(Strip(NonBlankLines(p)[k]))]

\* a line that is a list marker and nothing else has become a Paragraph
C6_Witness ==
    \E p \in BlocksDone :
        /\ InputLines(p) = <<<<"-", " ">>>>
        /\ blocks[p] = <<Block("Paragraph", 0, <<"-">>)>>

\* C7: the blocks are emitted in input line order, exactly one per non-blank
\* input line and none for a blank line: splitting the text into sections at
\* the heading lines reorders, drops and duplicates nothing.
C7_OneBlockPerLineInOrder ==
    \A p \in BlocksDone :
        /\ Len(blocks[p]) = Len(NonBlankLines(p))
        /\ blocks[p] = Concat([i \in 1..Len(InputLines(p)) |->
                                    LineBlocks(Strip(InputLines(p)[i]))])

\* a text of two sections and a blank line has been turned into its blocks
C7_Witness ==
    \E p \in BlocksDone :
        /\ Len(sections[p]) >= 2
        /\ Len(blocks[p]) >= 2
        /\ Len(InputLines(p)) > Len(blocks[p])

\* C8: every Heading block has a level in 1..9.
C8_HeadingLevelInRange ==
    \A p \in Procs :
        \A k \in 1..Len(blocks[p]) :
            blocks[p][k].kind = "Heading" =>
                blocks[p][k].level \in 1..MaxHeadingLevel

\* a line of more than nine '#' has become a Heading block of level 9
C8_Witness ==
    \E p \in BlocksDone :
        /\ Count(content[p], "#") > MaxHeadingLevel
        /\ Len(InputLines(p)) = 1
        /\ blocks[p] = <<Block("Heading", MaxHeadingLevel, <<>>)>>

\* C9: concurrent invocations for independent inputs do not interfere: each
\* completes without error, and once all have returned the document at the
\* path an invocation returned is the one built from its own input.
C9_ConcurrentInvocationsIndependent ==
    /\ \A p \in Procs : exc[p] = "none"
    /\ (\A p \in Procs : pc[p] = "done") =>
            \A p \in Procs : files[report_path[p]] = Document(p)

\* C10: for every input, malformed links and urls included, block construction,
\* citation extraction and categorization complete without raising.
C10_ParsingNeverRaises ==
    \A p \in Procs : exc[p] # "ValueError"

\* the exceptions of creating the output directory and of writing the document
FsErrors == {"OSError", "FileExistsError"}

\* no failure is swallowed or retried: a call gets past line 225 only with the
\* directory there, returns only with its document written, and a report page
\* is only shown for a written document
C11_NothingSwallowed ==
    \A p \in Procs :
        /\ exc[p] \in FsErrors => pc[p] = "raised"
        /\ pc[p] \in {"save", "done"} => reports_dir
        /\ pc[p] = "done" => report_path[p] \in DOMAIN files
        /\ session_state[p].report_generated =>
                session_state[p].report_path \in DOMAIN files

\* the step that handles a file system failure shows it as the error message
\* and leaves the session on the input page, its session variables unchanged
C11_HandledAsMessage ==
    \A p \in Procs :
        (pc[p] = "raised" /\ exc[p] \in FsErrors /\ pc'[p] # pc[p]) =>
            /\ pc'[p] = "page"
            /\ error'[p] = exc[p]
            /\ session_state'[p] = session_state[p]
            /\ ~session_state'[p].report_generated

\* C11: when creating the output directory or writing the document fails,
\* generate_report_file propagates the failure to its caller without retrying
\* or swallowing it, and the application shows an error message and stays on
\* the input page with report_generated, report_content and report_path
\* unchanged.
C11_FsFailureShownAndStateKept ==
    []C11_NothingSwallowed /\ [][C11_HandledAsMessage]_vars

\* after a report was generated and left by Back, a later generation failed on
\* the file system: the message is on the input page, the earlier report kept
C11_Witness ==
    \E p \in Procs :
        /\ error[p] \in FsErrors
        /\ pc[p] = "page"
        /\ ~session_state[p].report_generated
        /\ session_state[p].report_content # None

\* the invocations that have derived the company name (line 227)
Named == {p \in Procs : pc[p] = "done"}

\* the first ten lines of the text
FirstLines(p) == Take(InputLines(p), FirstLinesCount)

\* the words of a line, the '#' at its ends set aside
LineWords(line) == Words(StripChars(line, {"#"}))

\* the positions of the words 'of', 'for', 'about' among the words w
OfPositions(w) == {i \in 1..Len(w) : Lower(w[i]) \in {<<"o", "f">>, <<"f", "o", "r">>, <<"a", "b", "o", "u", "t">>}}

\* the lines among the first ten that contain 'overview', 'analysis' or
\* 'report' and one of the words 'of', 'for', 'about'
KeywordLines(p) ==
    {i \in 1..Len(FirstLines(p)) :
        /\ \E kw \in {<<"o", "v", "e", "r", "v", "i", "e", "w">>, <<"a", "n", "a", "l", "y", "s", "i", "s">>, <<"r", "e", "p", "o", "r", "t">>} :
                Contains(Lower(FirstLines(p)[i]), kw)
        /\ OfPositions(LineWords(FirstLines(p)[i])) # {}}

\* the words of the first such line
KeywordLineWords(p) ==
    LineWords(FirstLines(p)[CHOOSE i \in KeywordLines(p) :
                                \A j \in KeywordLines(p) : i <= j])

\* the position of the first 'of', 'for' or 'about' among them
FirstOf(p) ==
    CHOOSE i \in OfPositions(KeywordLineWords(p)) :
        \A j \in OfPositions(KeywordLineWords(p)) : i <= j

\* the example of C12: the first matching line '## Overview of Acme Robotics'
\* gives the file 'Market Analysis of Acme Robotics.docx'
C12_Example ==
    \A p \in Named :
        (KeywordLines(p) # {}
            /\ KeywordLineWords(p) = <<<<"O", "v", "e", "r", "v", "i", "e", "w">>, <<"o", "f">>, <<"A", "c", "m", "e">>, <<"R", "o", "b", "o", "t", "i", "c", "s">>>>)
        => /\ company_name[p] = <<"A", "c", "m", "e", " ", "R", "o", "b", "o", "t", "i", "c", "s">>
           /\ report_path[p] = <<"r", "e", "p", "o", "r", "t", "s", "/", "M", "a", "r", "k", "e", "t", " ", "A", "n", "a", "l", "y", "s", "i", "s", " ", "o", "f", " ", "A", "c", "m", "e", " ", "R", "o", "b", "o", "t", "i", "c", "s", ".", "d", "o", "c", "x">>

NoKeywordName(p) ==
    \/ KeywordLines(p) = {}
    \/ FirstOf(p) = Len(KeywordLineWords(p))

\* the lines among the first ten that are neither empty nor headings
PlainLines(p) ==
    {i \in 1..Len(FirstLines(p)) :
        /\ Strip(FirstLines(p)[i]) # <<>>
        /\ ~StartsWith(Strip(FirstLines(p)[i]), <<"#">>)}

\* C13: when no keyword line yields a name, extract_company_name returns the
\* first two words (the only word of a one-word line) of the first non-heading
\* non-empty line, and 'Company' when there is no such line.
C13_FallbackToFirstPlainLine ==
    \A p \in Named :
        NoKeywordName(p) =>
            company_name[p] =
                IF PlainLines(p) = {} THEN <<"C", "o", "m", "p", "a", "n", "y">>
                ELSE Join(Take(Words(FirstLines(p)[CHOOSE i \in PlainLines(p) :
                                            \A j \in PlainLines(p) : i <= j]), 2), <<" ">>)

\* the directory every report is saved in
ReportsDir == <<"r", "e", "p", "o", "r", "t", "s", "/">>

\* the name of the file an invocation saved, below the directory
SavedName(p) == Drop(report_path[p], Len(ReportsDir) + 1)

\* C14: for every report text, the filename under which the document is saved
\* contains none of the characters < > : " / \ | ? *, has no leading or
\* trailing whitespace and no run of two or more whitespace characters, so the
\* file is written directly inside the directory 'reports'.
C14_FilenameIsSafe ==
    \A p \in Named :
        LET f == SavedName(p)
        IN  /\ StartsWith(report_path[p], ReportsDir)
            /\ f # <<>>
            /\ \A i \in 1..Len(f) : f[i] \notin InvalidFilenameChars
            /\ f[1] \notin Whitespace
            /\ f[Len(f)] \notin Whitespace
            /\ \A i \in 1..(Len(f) - 1) :
                    ~(f[i] \in Whitespace /\ f[i + 1] \in Whitespace)
            /\ report_path[p] \in DOMAIN files

\* a company name holding a path separator and invalid characters only was
\* derived, and the document saved
C14_Witness ==
    \E p \in Named :
        /\ Contains(company_name[p], <<"/">>)
        /\ Contains(company_name[p], <<"\\">>)
        /\ report_path[p] = <<"r", "e", "p", "o", "r", "t", "s", "/", "M", "a", "r", "k", "e", "t", " ", "A", "n", "a", "l", "y", "s", "i", "s", " ", "o", "f", " ", ".", "d", "o", "c", "x">>
        /\ report_path[p] \in DOMAIN files

\* the invocations that are past format_sources_section (line 221)
SourcesDone == {p \in Procs : pc[p] \in {"exists", "makedirs", "save", "done"}}

\* the positions of the category sub-headings in a sources section
SubHeadings(src) ==
    SelectSeq([i \in 1..Len(src) |-> i],
              LAMBDA i : src[i].kind = "Heading" /\ src[i].level = 2)

\* the entries below the k-th sub-heading
Group(src, k) ==
    LET h == SubHeadings(src)
    IN  SubSeq(src, h[k] + 1, IF k < Len(h) THEN h[k + 1] - 1 ELSE Len(src))

\* the categories of the citations ls, each once, in order of first appearance
FirstSeenCategories(ls) ==
    LET first == SelectSeq([i \in 1..Len(ls) |-> i],
                           LAMBDA i : \A j \in 1..(i - 1) :
                                            ls[j].category # ls[i].category)
    IN  [k \in 1..Len(first) |-> ls[first[k]].category]

\* label and url of each entry or citation of a sequence
LabelsAndUrls(s) == [k \in 1..Len(s) |-> <<s[k].text, s[k].url>>]

\* C15: citations are grouped by their assigned category, the categories in
\* order of their first appearance in the text and, within each category, the
\* citations in order of their appearance; every citation appears in exactly
\* one group.
C15_GroupedInFirstSeenOrder ==
    \A p \in SourcesDone :
        LET src == sources[p]
            h == SubHeadings(src)
        IN  /\ [k \in 1..Len(h) |-> src[h[k]].text] = FirstSeenCategories(links[p])
            /\ \A k \in 1..Len(h) :
                    LabelsAndUrls(Group(src, k)) =
                        LabelsAndUrls(SelectSeq(links[p],
                            LAMBDA l : l.category = src[h[k]].text))
            /\ Len(SelectSeq(src, LAMBDA b : b.kind = "Entry")) = Len(links[p])

\* three citations of two categories, the first and the third of one category
C15_Witness ==
    \E p \in SourcesDone :
        /\ Len(links[p]) = 3
        /\ links[p][1].category = links[p][3].category
        /\ links[p][1].category # links[p][2].category
        /\ links[p][1].url # links[p][3].url
        /\ Len(SubHeadings(sources[p])) = 2
        /\ Len(Group(sources[p], 1)) = 2

\* the entry C16 describes for a citation: its label, its url, and the line
\* around it when that line differs from the label
ClaimedEntry(link) ==
    [kind |-> "Entry", level |-> 0, text |-> link.text, url |-> link.url,
     has_context |-> link.context # link.text,
     context |-> IF link.context # link.text THEN link.context ELSE <<>>]

\* the sources section src is the one C16 describes for the citations ls
IsSourcesSectionOf(src, ls) ==
    LET h == SubHeadings(src)
        cats == {ls[i].category : i \in 1..Len(ls)}
    IN  /\ src # <<>>
        /\ src[1].kind = "Heading" /\ src[1].level = 1 /\ src[1].text = <<"S", "o", "u", "r", "c", "e", "s">>
        /\ Len(h) = Cardinality(cats)
        /\ {src[h[k]].text : k \in 1..Len(h)} = cats
        /\ \A i \in 2..Len(src) : src[i].kind = "Entry" \/ src[i].level = 2
        /\ \A k \in 1..Len(h) :
                Group(src, k) =
                    LET mine == SelectSeq(ls, LAMBDA l : l.category = src[h[k]].text)
                    IN  [n \in 1..Len(mine) |-> ClaimedEntry(mine[n])]

\* C16 as first stated: the exported document ends with a 'Sources' section
\* that contains exactly one sub-heading per distinct citation category and
\* exactly one bulleted entry per citation under its category's sub-heading,
\* each entry with the label and the url, and with the surrounding line as
\* context exactly when that line differs from the label.
C16_EndsWithSourcesSection ==
    \A p \in Named :
        /\ files[report_path[p]].body = blocks[p]
        /\ IsSourcesSectionOf(files[report_path[p]].sources, links[p])

\* C16, amended: a document with at least one citation ends with that
\* 'Sources' section; a document without citations has no 'Sources' section.
C16_EndsWithSourcesSectionIfCited ==
    \A p \in Named :
        /\ files[report_path[p]].body = blocks[p]
        /\ IF links[p] = <<>>
           THEN files[report_path[p]].sources = <<>>
           ELSE IsSourcesSectionOf(files[report_path[p]].sources, links[p])

\* a document with citations of two categories has been saved
C16_Witness ==
    \E p \in Named :
        /\ Len(links[p]) >= 2
        /\ Len(SubHeadings(files[report_path[p]].sources)) = 2
        /\ Len(files[report_path[p]].sources) = 3 + Len(links[p])
        /\ files[report_path[p]].sources[3].has_context

\* the invocations that were called with the empty text and have started
EmptyInput == {p \in Procs : pc[p] \notin {"idle", "call"} /\ Str(research_data[p]) = <<>>}

\* C17: empty input text yields an empty block sequence and an empty citation
\* grouping, and generation completes without an error.
C17_EmptyInputEmptyReport ==
    \A p \in EmptyInput :
        /\ pc[p] # "raised" /\ exc[p] = "none"
        /\ links[p] = <<>>
        /\ blocks[p] = <<>>
        /\ sources[p] = <<>>
        /\ pc[p] = "done" =>
                /\ report_path[p] \in DOMAIN files
                /\ files[report_path[p]] = [body |-> <<>>, sources |-> <<>>]

\* the report of the empty text has been saved, in a directory made for it
C17_Witness ==
    \E p \in EmptyInput :
        /\ pc[p] = "done"
        /\ ~dir_seen[p]
        /\ report_path[p] = <<"r", "e", "p", "o", "r", "t", "s", "/", "M", "a", "r", "k", "e", "t", " ", "A", "n", "a", "l", "y", "s", "i", "s", " ", "o", "f", " ", "C", "o", "m", "p", "a", "n", "y", ".", "d", "o", "c", "x">>
        /\ files[report_path[p]] = [body |-> <<>>, sources |-> <<>>]

\* the sessions whose page is the report page
OnReportPage == {p \in Procs : pc[p] = "page" /\ session_state[p].report_generated}

\* the lines of a report the side navigation lists, by their position
ListedLines(text) ==
    SelectSeq([i \in 1..Len(Split(text, "\n")) |-> i],
              LAMBDA i : NavSection(Split(text, "\n")[i]) # <<>>)

\* the id of the anchor process_markdown emits for the heading line i of a report
AnchorOfLine(text, i) ==
    LET lines == Split(text, "\n")
        n == Cardinality({j \in 1..i : MarkdownKind(lines[j]) = "header"})
        divs == SelectSeq(process_markdown(text), LAMBDA m : m.tag = "div")
    IN  divs[n].id

\* C18: for every level-2 heading of the report that the side navigation
\* lists, the navigation link's target id equals the id of the anchor emitted
\* for that heading line by process_markdown.
C18_NavLinkTargetsItsHeading ==
    \A p \in OnReportPage :
        LET text == session_state[p].report_content
        IN  /\ Len(nav[p]) = Len(ListedLines(text))
            /\ \A k \in 1..Len(nav[p]) :
                    nav[p][k].id = AnchorOfLine(text, ListedLines(text)[k])

\* the calls of crew.kickoff() of a session are those its submissions with a
\* non-empty query ask for, one each, in order
C19_OneKickoffPerQuery ==
    \A p \in Procs :
        kickoffs[p] = SelectSeq(submissions[p], LAMBDA q : q # <<>>)

\* a step that calls crew.kickoff() is the submission of a non-empty query,
\* made on the input page
C19_KickoffOnlyOnSubmit ==
    \A p \in Procs :
        kickoffs'[p] # kickoffs[p] =>
            /\ ~session_state[p].report_generated
            /\ pc[p] = "page"
            /\ Len(submissions'[p]) = Len(submissions[p]) + 1
            /\ submissions'[p][Len(submissions'[p])] # <<>>
            /\ kickoffs'[p] = Append(kickoffs[p], submissions'[p][Len(submissions'[p])])

\* C19: each submission of the form with a non-empty query results in exactly
\* one call into the agent framework (crew kickoff), and no such call occurs
\* without a submission, for an empty query, or while the report page is shown.
C19_OneKickoffPerSubmission ==
    []C19_OneKickoffPerQuery /\ [][C19_KickoffOnlyOnSubmit]_vars

\* a session submitted the empty form, then a query, and is shown the report
\* of the one kickoff
C19_Witness ==
    \E p \in OnReportPage :
        /\ submissions[p] = <<<<>>, <<"a", "c", "m", "e">>>>
        /\ kickoffs[p] = <<<<"a", "c", "m", "e">>>>
        /\ session_state[p].search_query = <<"a", "c", "m", "e">>

\* a session whose report page is due holds the text, the path and the query
\* of one generation: the path is the one derived from the text, and the query
\* is the one of the session's latest kickoff
C20_SetTogether ==
    \A p \in Procs :
        session_state[p].report_generated =>
            /\ session_state[p].report_content # None
            /\ session_state[p].report_path # None
            /\ session_state[p].search_query # None
            /\ session_state[p].report_path = ReportPath(session_state[p].report_content)
            /\ kickoffs[p] # <<>>
            /\ session_state[p].search_query = kickoffs[p][Len(kickoffs[p])]

\* a step changes a session's state only as the return of a generation, which
\* stores what that generation produced, or as Back, which clears the flag; a
\* failed generation ends with the state it found
C20_ChangedOnlyTogether ==
    \A p \in Procs :
        /\ session_state'[p] # session_state[p] =>
            \/ /\ pc[p] = "done"
               /\ session_state'[p] =
                    [report_generated |-> TRUE, report_content |-> content[p],
                     report_path |-> report_path[p], search_query |-> search_query[p]]
            \/ /\ pc[p] = "page"
               /\ session_state[p].report_generated
               /\ session_state'[p] =
                    [session_state[p] EXCEPT !.report_generated = FALSE]
        /\ pc[p] \in {"crew", "raised"} => session_state'[p] = session_state[p]

\* C20: in every reachable state of an application session, report_generated =
\* True implies that report_content, report_path and search_query are set and
\* were all produced by the same, most recent successful generation; the Back
\* action changes only report_generated, and a failed generation changes none
\* of the four.
C20_SessionStateConsistent ==
    []C20_SetTogether /\ [][C20_ChangedOnlyTogether]_vars

\* a session generated a report, went back, and its second generation failed
\* in the crew: the input page shows the error over the first report's values
C20_Witness ==
    \E p \in Procs :
        /\ submissions[p] = <<<<"a", "c", "m", "e">>, <<"a", "c", "m", "e">>>>
        /\ error[p] = "CrewError"
        /\ session_state[p] = [report_generated |-> FALSE,
                               report_content |-> session_state[p].report_content,
                               report_path |-> ReportPath(session_state[p].report_content),
                               search_query |-> <<"a", "c", "m", "e">>]

\* the length of the list or quote marker a trimmed line starts with
MarkerLen(s) ==
    IF StartsWith(s, <<">">>) THEN 1
    ELSE IF StartsWith(s, <<"-", " ">>) \/ StartsWith(s, <<"*", " ">>) THEN 2
    ELSE IF StartsWith(s, <<"1", ".", " ">>) THEN 3
    ELSE 0

\* a trimmed line without its leading marker, trimmed again
MarkerRemoved(s) == Strip(Drop(s, MarkerLen(s) + 1))

ItemKinds == {"BulletItem", "NumberedItem", "Quote"}

\* C21: for every line classified as BulletItem, NumberedItem or Quote, the
\* block's text equals the line with its single leading marker ('- ', '* ',
\* '1. ' or '>') removed and surrounding whitespace trimmed; no other character
\* of the item's content is removed.
C21_ItemTextIsLineWithoutMarker ==
    \A p \in BlocksDone :
        Len(blocks[p]) = Len(NonBlankLines(p)) =>
            \A k \in 1..Len(blocks[p]) :
                blocks[p][k].kind \in ItemKinds =>
                    blocks[p][k].text = MarkerRemoved(Strip(NonBlankLines(p)[k]))

NamePrefix == <<"M", "a", "r", "k", "e", "t", " ", "A", "n", "a", "l", "y", "s", "i", "s", " ", "o", "f", " ">>

NameSuffix == <<".", "d", "o", "c", "x">>

\* C22: extract_company_name never returns an empty string: for every report
\* text the derived company name contains at least one word, so the saved
\* filename always has the form 'Market Analysis of <non-empty name>.docx'.
C22_CompanyNameNotEmpty ==
    \A p \in Named :
        /\ Words(company_name[p]) # <<>>
        /\ Len(SavedName(p)) > Len(NamePrefix) + Len(NameSuffix)
        /\ StartsWith(SavedName(p), NamePrefix)
        /\ Drop(SavedName(p), Len(SavedName(p)) - Len(NameSuffix) + 1) = NameSuffix

\* the keywords of the table that hold an earlier keyword of the table
ShadowedKeywords == {<<"r", "e", "s", "e", "a", "r", "c", "h", " ", "p", "a", "p", "e", "r">>, <<"a", "n", "n", "u", "a", "l", " ", "r", "e", "p", "o", "r", "t">>}

\* the host of a citation's url, as categorize_source reads it
Host(link) == Lower(UrlNetloc(link.url))

\* a citation whose label or host holds a shadowed keyword
HoldsShadowed(link) ==
    \E k \in ShadowedKeywords :
        Contains(Lower(link.text), k) \/ Contains(Host(link), k)

\* C23: the keywords 'research paper' (Scientific Publications) and 'annual
\* report' (Company Resources) never decide a category: every citation whose
\* label or host contains one of them is categorized 'Market Research', because
\* 'research' and 'report' are tested earlier in the table.
C23_ShadowedKeywordsNeverDecide ==
    \A p \in LinksDone :
        \A k \in 1..Len(links[p]) :
            HoldsShadowed(links[p][k]) => links[p][k].category = <<"M", "a", "r", "k", "e", "t", " ", "R", "e", "s", "e", "a", "r", "c", "h">>

\* citations with 'research paper' in the label, 'annual report' in the host
\* only, and neither, have been categorized
C23_Witness ==
    \E p \in LinksDone :
        /\ Len(links[p]) = 3
        /\ Contains(Lower(links[p][1].text), <<"r", "e", "s", "e", "a", "r", "c", "h", " ", "p", "a", "p", "e", "r">>)
        /\ links[p][1].category = <<"M", "a", "r", "k", "e", "t", " ", "R", "e", "s", "e", "a", "r", "c", "h">>
        /\ links[p][2].text = <<"a">>
        /\ Contains(Host(links[p][2]), <<"a", "n", "n", "u", "a", "l", " ", "r", "e", "p", "o", "r", "t">>)
        /\ links[p][2].category = <<"M", "a", "r", "k", "e", "t", " ", "R", "e", "s", "e", "a", "r", "c", "h">>
        /\ ~HoldsShadowed(links[p][3])
        /\ links[p][3].category = OtherSources

\* the entries of a sources section, in order
Entries(src) == SelectSeq(src, LAMBDA b : b.kind = "Entry")

\* C24: for every citation produced by extract_markdown_links, the context
\* (the stripped surrounding line) is different from the label, so every entry
\* of the Sources section carries a Context line.
C24_EveryEntryHasContext ==
    /\ \A p \in LinksDone :
        \A k \in 1..Len(links[p]) :
            /\ links[p][k].context # links[p][k].text
            /\ Len(links[p][k].context) > Len(links[p][k].text)
    /\ \A p \in SourcesDone :
        \A k \in 1..Len(Entries(sources[p])) :
            /\ Entries(sources[p])[k].has_context
            /\ Entries(sources[p])[k].context # <<>>
            /\ \E j \in 1..Len(links[p]) :
                    Entries(sources[p])[k].context = links[p][j].context

\* a line that holds a citation and nothing else: the context is the whole
\* link, and the entry of the citation carries it
C24_Witness ==
    \E p \in SourcesDone :
        /\ content[p] = <<"[", "a", "]", "(", "u", ")">>
        /\ links[p][1].text = <<"a">>
        /\ links[p][1].context = <<"[", "a", "]", "(", "u", ")">>
        /\ Entries(sources[p]) = <<SourceBlock("Entry", 0, <<"a">>, <<"u">>, TRUE, <<"[", "a", "]", "(", "u", ")">>)>>

\* the text t occurs in s at position i
OccursAt(s, t, i) ==
    i + Len(t) - 1 <= Len(s) /\ SubSeq(s, i, i + Len(t) - 1) = t

\* the list tag that starts at position i of a text, "" if none does
TagAt(s, i) ==
    IF OccursAt(s, UlOpen, i) THEN "ul"
    ELSE IF OccursAt(s, UlClose, i) THEN "/ul"
    ELSE IF OccursAt(s, LiOpen, i) THEN "li"
    ELSE ""

\* the list tags of a text, in order
TextTags(s) ==
    LET at == SelectSeq([i \in 1..Len(s) |-> i], LAMBDA i : TagAt(s, i) # "")
    IN  [k \in 1..Len(at) |-> TagAt(s, at[k])]

\* the list tag a line of the output is, or starts with, "" if none
LineTag(l) ==
    IF l = UlOpen THEN "ul"
    ELSE IF l = UlClose THEN "/ul"
    ELSE IF StartsWith(l, LiOpen) THEN "li"
    ELSE ""

\* the list tags the lines of an output are or start with, in order
LineTags(ls) ==
    LET at == SelectSeq([i \in 1..Len(ls) |-> i], LAMBDA i : LineTag(ls[i]) # "")
    IN  [k \in 1..Len(at) |-> LineTag(ls[at[k]])]

\* reading list tags from the k-th on, a list being open or not: "closed" or
\* "open" as the tags leave it, "bad" when a list opens inside a list, closes
\* with none open, or an item stands outside a list
RECURSIVE Walk(_, _, _)
Walk(tags, k, open) ==
    IF k > Len(tags) THEN (IF open THEN "open" ELSE "closed")
    ELSE IF tags[k] = "ul" THEN (IF open THEN "bad" ELSE Walk(tags, k + 1, TRUE))
    ELSE IF tags[k] = "/ul" THEN (IF open THEN Walk(tags, k + 1, FALSE) ELSE "bad")
    ELSE IF open THEN Walk(tags, k + 1, TRUE) ELSE "bad"

\* C25 as first stated: in the output of process_markdown for any input, list
\* tags are balanced and never nested: every '<ul class="content-list">' is
\* closed by a later '</ul>' before the next list opens and before the output
\* ends, and every '<li>' is emitted while a list is open.
C25_ListTagsBalanced ==
    markdown.result # None => Walk(TextTags(markdown.result), 1, FALSE) = "closed"

\* C25, amended: in the output of process_markdown for any input, the list
\* tags that begin a line of the output are balanced and never nested: every
\* line '<ul class="content-list">' is followed by a line '</ul>' before the
\* next list opens and before the output ends, and every line that starts with
\* '<li>' lies inside a list; text of the input is copied as it is, so a tag
\* written in the input shows up inside a line of the output.
C25_LineStartTagsBalanced ==
    /\ markdown.i >= 1 =>
            Walk(LineTags(markdown.processed_lines), 1, FALSE)
                = IF markdown.in_list THEN "open" ELSE "closed"
    /\ markdown.result # None =>
            Walk(LineTags(Split(markdown.result, "\n")), 1, FALSE) = "closed"

\* a list of one item was closed before a paragraph that holds '<li>' itself
C25_Witness ==
    /\ markdown.lines = <<<<"-", " ", "a">>, <<"<", "l", "i", ">">>>>
    /\ markdown.result = <<"<", "u", "l", " ", "c", "l", "a", "s", "s", "=", "\"", "c", "o", "n", "t", "e", "n", "t", "-", "l", "i", "s", "t", "\"", ">", "\n", "<", "l", "i", ">", "a", "<", "/", "l", "i", ">", "\n", "<", "/", "u", "l", ">", "\n", "<", "p", ">", "<", "l", "i", ">", "<", "/", "p", ">">>

====
